---- MODULE Spec2Model ----
(***************************************************************************)
(* Model of the image triage (classify.py) and instance cropping (crop.py) *)
(* scripts.                                                                *)
(*                                                                         *)
(* Strings are sequences of one-character strings, so that prefix tests,   *)
(* splitting, concatenation and formatting are computed, not assumed.      *)
(* Floating-point scores (sharpness, confidence, pixel percent) only take  *)
(* part in comparisons and are modelled as integers; bounding-box          *)
(* fractions are exact rationals <<numerator, denominator>>.               *)
(***************************************************************************)
EXTENDS Integers, Sequences, FiniteSets, TLC

VARIABLES
    args,            \* the inputs of the run: parsed arguments, service responses, files read
    pc,              \* position of the script or call
    ret,             \* value returned by the function under study
    response,        \* classify: the service's response for the current image
    i,               \* classify: index of the image of the batch loop
    j,               \* classify: index of the label of the inner loop
    copies,          \* classify: the files copied so far, <<directory, image index>>
    skipped,         \* classify: the images reported blurry
    error,           \* classify: the exception that ended the run, or "none"
    bounding_boxes,  \* crop: the dict returned by extract_bounding_boxes
    cropped          \* crop: the files written, <<path, pixel rectangle>>

vars == <<args, pc, ret, response, i, j, copies, skipped, error, bounding_boxes, cropped>>

\* Python's None: a one-element tuple holding a four-character token, so it
\* differs from every string (whose elements are single characters).
None == <<"None">>

\* The value of a variable a specification does not use.
Idle == <<>>

classifyVars == <<response, i, j, copies, skipped, error>>
cropVars == <<bounding_boxes, cropped>>

ClassifyIdle ==
    /\ response = Idle /\ i = 0 /\ j = 0
    /\ copies = {} /\ skipped = {} /\ error = "none"

CropIdle == bounding_boxes = Idle /\ cropped = {}

---------------------------------------------------------------------------
(* Strings *)

RECURSIVE SeqsUpTo(_, _)
\* All sequences over S of length 0..n.
SeqsUpTo(S, n) ==
    IF n = 0 THEN {<<>>}
    ELSE LET shorter == SeqsUpTo(S, n - 1)
         IN  shorter \cup {Append(s, x) : s \in {t \in shorter : Len(t) = n - 1}, x \in S}

\* str.startswith(prefix)
StartsWith(s, prefix) ==
    /\ Len(prefix) <= Len(s)
    /\ SubSeq(s, 1, Len(prefix)) = prefix

RECURSIVE SplitFrom(_, _, _, _)
\* str.split(sep) for a one-character sep: the fields between separators.
SplitFrom(s, sep, k, field) ==
    IF k > Len(s) THEN <<field>>
    ELSE IF s[k] = sep THEN <<field>> \o SplitFrom(s, sep, k + 1, <<>>)
    ELSE SplitFrom(s, sep, k + 1, Append(field, s[k]))

Split(s, sep) == SplitFrom(s, sep, 1, <<>>)

Digit(d) == <<"0", "1", "2", "3", "4", "5", "6", "7", "8", "9">>[d + 1]

RECURSIVE Str(_)
\* str(n) for a natural number: its decimal digits.
Str(n) == IF n < 10 THEN <<Digit(n)>> ELSE Str(n \div 10) \o <<Digit(n % 10)>>

\* dict.get(key, default), a dict being a function on its keys.
DictGet(d, key, default) == IF key \in DOMAIN d THEN d[key] ELSE default

\* os.path.join of two and of three relative components.
PathJoin2(a, b) == a \o <<"/">> \o b
PathJoin3(a, b, c) == PathJoin2(PathJoin2(a, b), c)

---------------------------------------------------------------------------
(* classify.py: module constants *)

CSV_SEPARATOR == ","

DEFAULT_min_sharpness == 60
DEFAULT_max_image_count == 20

\* Sharpness assumed when the response carries none.
DefaultSharpness == 100

---------------------------------------------------------------------------
(* classify.py: is_sharp *)

EmptyDict == [x \in {} |-> 0]

is_sharp(image_properties, threshold) ==
    LET avg_sharpness ==
            DictGet(DictGet(image_properties, "Quality", EmptyDict),
                    "Sharpness", DefaultSharpness)
    IN  avg_sharpness > threshold

SharpnessScores == 0..DefaultSharpness
SharpnessThresholds == 0..(DefaultSharpness + 1)

SharpInit ==
    /\ args \in [image_properties :
                    {EmptyDict, [Quality |-> EmptyDict]}
                        \cup {[Quality |-> [Sharpness |-> s]] : s \in SharpnessScores},
                 threshold : SharpnessThresholds]
    /\ pc = "call"
    /\ ret = Idle
    /\ ClassifyIdle /\ CropIdle

CallIsSharp ==
    /\ pc = "call"
    /\ ret' = is_sharp(args.image_properties, args.threshold)
    /\ pc' = "returned"
    /\ UNCHANGED <<args, classifyVars, cropVars>>

SharpNext == CallIsSharp

SpecSharp == SharpInit /\ [][SharpNext]_vars

HasSharpness(image_properties) ==
    /\ "Quality" \in DOMAIN image_properties
    /\ "Sharpness" \in DOMAIN image_properties.Quality

\* C4: is_sharp is false for every sharpness <= threshold and true for every
\* sharpness > threshold, and an image without a sharpness measurement passes
\* the gate whatever the threshold.
C4_GateNeverRejectsAbsentSharpness ==
    pc = "returned" =>
        IF HasSharpness(args.image_properties)
        THEN ret = (args.image_properties.Quality.Sharpness > args.threshold)
        ELSE ret = TRUE

---------------------------------------------------------------------------
(* classify.py: get_dominant_color_name *)

\* The exception max() raises on an empty sequence.
ValueError == <<"ValueError">>

Red == <<"r", "e", "d">>
Blue == <<"b", "l", "u", "e">>
Green == <<"g", "r", "e", "e", "n">>

\* d[key] = value on a dict: a later value replaces an earlier one.
DictPut(d, key, value) ==
    [x \in DOMAIN d \cup {key} |-> IF x = key THEN value ELSE d[x]]

RECURSIVE ColorDict(_, _, _)
\* The dict comprehension {PixelPercent: SimplifiedColor for color in colors}.
ColorDict(colors, k, d) ==
    IF k > Len(colors) THEN d
    ELSE ColorDict(colors, k + 1,
                   DictPut(d, DictGet(colors[k], "PixelPercent", 0),
                           colors[k].SimplifiedColor))

\* min() in the place of max().
MinOf(S) == CHOOSE x \in S : \A y \in S : x <= y

\* max() of a non-empty collection of numbers.
MaxOf(S) == CHOOSE x \in S : \A y \in S : y <= x

get_dominant_color_name(image_properties) ==
    LET dominant_colors == ColorDict(image_properties.DominantColors, 1, EmptyDict)
    IN  IF DOMAIN dominant_colors = {} THEN ValueError
        ELSE dominant_colors[MaxOf(DOMAIN dominant_colors)]

MaxPercent == 2
MaxColors == 3

ColorNames == {Red, Blue, Green}

ColorObservations ==
    [SimplifiedColor : ColorNames]
        \cup [PixelPercent : 0..MaxPercent, SimplifiedColor : ColorNames]

ColorInit ==
    /\ args \in [image_properties :
                    [DominantColors : SeqsUpTo(ColorObservations, MaxColors)]]
    /\ pc = "call"
    /\ ret = Idle
    /\ ClassifyIdle /\ CropIdle

CallGetDominantColorName ==
    /\ pc = "call"
    /\ ret' = get_dominant_color_name(args.image_properties)
    /\ pc' = "returned"
    /\ UNCHANGED <<args, classifyVars, cropVars>>

ColorNext == CallGetDominantColorName

SpecColor == ColorInit /\ [][ColorNext]_vars

PercentArea(color) == DictGet(color, "PixelPercent", 0)

\* Observation k has the greatest percent area of the sequence.
IsMaxObservation(colors, k) ==
    \A m \in 1..Len(colors) : PercentArea(colors[m]) <= PercentArea(colors[k])

\* C6: for a non-empty sequence of observations, ties included, the result is
\* the color name of an observation of maximum percent area; it is the name
\* of the last such observation of the sequence, so the input sequence
\* determines it.
C6_DominantColorIsLastMaximum ==
    LET colors == args.image_properties.DominantColors
    IN  (pc = "returned" /\ colors # <<>>) =>
            \E k \in 1..Len(colors) :
                /\ IsMaxObservation(colors, k)
                /\ \A m \in (k + 1)..Len(colors) : ~IsMaxObservation(colors, m)
                /\ ret = colors[k].SimplifiedColor

\* A call returned on a sequence where two observations of different colors
\* share the maximum percent area.
C6_WitnessTie ==
    LET colors == args.image_properties.DominantColors
    IN  /\ pc = "returned"
        /\ \E k, m \in 1..Len(colors) :
            /\ k < m
            /\ IsMaxObservation(colors, k) /\ IsMaxObservation(colors, m)
            /\ colors[k].SimplifiedColor # colors[m].SimplifiedColor
            /\ ret = colors[m].SimplifiedColor

---------------------------------------------------------------------------
(* classify.py: parse_args (--max_image_count) and get_image_paths *)

\* Python values whose type matters to ==: an int never equals a str.
PyInt(n) == [type |-> "int", value |-> n]
PyStr(s) == [type |-> "str", value |-> s]

\* len(images) == max
LenEquals(images, max) == max.type = "int" /\ max.value = Len(images)

\* args.max_image_count: the option is declared without type=int, so a value
\* given on the command line stays the string typed; the default is an int.
parse_max_image_count(option) ==
    IF option = None THEN PyInt(DEFAULT_max_image_count) ELSE PyStr(option)

SUPPORTED_EXTENSIONS ==
    {<<"j", "p", "g">>, <<"j", "p", "e", "g">>, <<"p", "n", "g">>}

UpperCase == <<"A", "B", "C", "D", "E", "F", "G", "H", "I", "J", "K", "L", "M",
               "N", "O", "P", "Q", "R", "S", "T", "U", "V", "W", "X", "Y", "Z">>
LowerCase == <<"a", "b", "c", "d", "e", "f", "g", "h", "i", "j", "k", "l", "m",
               "n", "o", "p", "q", "r", "s", "t", "u", "v", "w", "x", "y", "z">>

\* str.lower()
Lower(s) ==
    [k \in 1..Len(s) |->
        IF \E u \in 1..Len(UpperCase) : UpperCase[u] = s[k]
        THEN LowerCase[CHOOSE u \in 1..Len(UpperCase) : UpperCase[u] = s[k]]
        ELSE s[k]]

RECURSIVE LStrip(_, _)
\* str.lstrip(ch)
LStrip(s, ch) == IF s # <<>> /\ Head(s) = ch THEN LStrip(Tail(s), ch) ELSE s

\* os.path.splitext(filename)[1]: from the last dot on, empty when there is
\* no dot or when only dots precede it.
SplitExt(filename) ==
    LET dots == {k \in 1..Len(filename) : filename[k] = "."}
    IN  IF dots = {} THEN <<>>
        ELSE LET last == MaxOf(dots)
             IN  IF \A k \in 1..(last - 1) : filename[k] = "." THEN <<>>
                 ELSE SubSeq(filename, last, Len(filename))

HasSupportedExtension(filename) ==
    LStrip(Lower(SplitExt(filename)), ".") \in SUPPORTED_EXTENSIONS

RECURSIVE ListImages(_, _, _, _, _)
\* The loop of get_image_paths from entry k on, images being the list so far.
ListImages(images_dir, listing, max, k, images) ==
    IF k > Len(listing) THEN images
    ELSE LET entry == listing[k]
             appended ==
                 IF entry.isfile /\ HasSupportedExtension(entry.name)
                 THEN Append(images, PathJoin2(images_dir, entry.name))
                 ELSE images
         IN  IF LenEquals(appended, max) THEN appended
             ELSE ListImages(images_dir, listing, max, k + 1, appended)

get_image_paths(images_dir, listing, max) ==
    ListImages(images_dir, listing, max, 1, <<>>)

ImagesDir == <<"i", "n">>

FileNames ==
    {<<"a", ".", "j", "p", "g">>, <<"b", ".", "J", "P", "G">>,
     <<"c", ".", "p", "n", "g">>, <<"d", ".", "t", "x", "t">>,
     <<"j", "p", "g">>}

MaxFiles == 3
MaxOption == 3

\* os.listdir with os.path.isfile of each entry: names are distinct.
DirEntries == [name : FileNames, isfile : BOOLEAN]

SmallListings ==
    {l \in SeqsUpTo(DirEntries, MaxFiles) :
        \A k, m \in 1..Len(l) : k # m => l[k].name # l[m].name}

\* A directory of n image files img1.jpg .. imgn.jpg.
ManyImages(n) ==
    [k \in 1..n |->
        [name |-> <<"i", "m", "g">> \o Str(k) \o <<".", "j", "p", "g">>,
         isfile |-> TRUE]]

LargeListings ==
    {ManyImages(n) : n \in (DEFAULT_max_image_count - 1)..(DEFAULT_max_image_count + 2)}

PathsInit ==
    /\ args \in [listing : SmallListings \cup LargeListings,
                 max_image_count : {None} \cup {Str(n) : n \in 0..MaxOption}]
    /\ pc = "call"
    /\ ret = Idle
    /\ ClassifyIdle /\ CropIdle

CallGetImagePaths ==
    /\ pc = "call"
    /\ ret' = get_image_paths(ImagesDir, args.listing,
                              parse_max_image_count(args.max_image_count))
    /\ pc' = "returned"
    /\ UNCHANGED <<args, classifyVars, cropVars>>

PathsNext == CallGetImagePaths

SpecPaths == PathsInit /\ [][PathsNext]_vars

\* The limit the user asked for: the default, or the number typed.
RequestedLimit(option) ==
    IF option = None THEN DEFAULT_max_image_count
    ELSE CHOOSE n \in 0..MaxOption : Str(n) = option

\* C9: the paths returned are regular files with a jpg, jpeg or png extension
\* (case-insensitive), and there are never more than max_image_count of them,
\* for the default and for every value given on the command line, 0 included.
C9_AtMostMaxImageCount ==
    pc = "returned" =>
        /\ \A k \in 1..Len(ret) :
            \E e \in 1..Len(args.listing) :
                /\ ret[k] = PathJoin2(ImagesDir, args.listing[e].name)
                /\ args.listing[e].isfile
                /\ HasSupportedExtension(args.listing[e].name)
        /\ Len(ret) <= RequestedLimit(args.max_image_count)

---------------------------------------------------------------------------
(* classify.py: get_label_category *)

Animals == <<"A", "n", "i", "m", "a", "l", "s">>
Vehicles == <<"V", "e", "h", "i", "c", "l", "e", "s">>

MaxLabelLen == 3
MaxEntries == 2

LabelAlphabet == {"c", "a", "t"}
LabelNames == SeqsUpTo(LabelAlphabet, MaxLabelLen) \ {<<>>}
Categories == {Animals, Vehicles}

\* A row of categories.csv: the label-name key and the category.
MappingEntries == [key : LabelNames, category : Categories]

\* The lines a text file yields when iterated: every line keeps its "\n",
\* except that the last line of the file may have none.
FileLines(entries, final_newline) ==
    [k \in 1..Len(entries) |->
        entries[k].key \o <<CSV_SEPARATOR>> \o entries[k].category
            \o (IF k < Len(entries) \/ final_newline THEN <<"\n">> ELSE <<>>)]

RECURSIVE ScanLines(_, _, _)
ScanLines(lines, label, k) ==
    IF k > Len(lines) THEN None
    ELSE IF StartsWith(lines[k], label) THEN Split(lines[k], CSV_SEPARATOR)[2]
    ELSE ScanLines(lines, label, k + 1)

get_label_category(lines, label) == ScanLines(lines, label, 1)

CategoryInit ==
    /\ args \in [entries : SeqsUpTo(MappingEntries, MaxEntries),
                 final_newline : BOOLEAN,
                 label : LabelNames]
    /\ pc = "call"
    /\ ret = Idle
    /\ ClassifyIdle /\ CropIdle

CallGetLabelCategory ==
    /\ pc = "call"
    /\ ret' = get_label_category(FileLines(args.entries, args.final_newline), args.label)
    /\ pc' = "returned"
    /\ UNCHANGED <<args, classifyVars, cropVars>>

CategoryNext == CallGetLabelCategory

SpecCategory == CategoryInit /\ [][CategoryNext]_vars

RECURSIVE FirstKeyPrefix(_, _, _)
\* The resolution the mapping is documented to have: the category of the
\* first entry whose key is a prefix of the label, None if there is none.
FirstKeyPrefix(entries, label, k) ==
    IF k > Len(entries) THEN None
    ELSE IF StartsWith(label, entries[k].key) THEN entries[k].category
    ELSE FirstKeyPrefix(entries, label, k + 1)

\* C3: get_label_category returns the category of the first entry, in file
\* order, whose key is a prefix of the label name, exactly as written in the
\* table, and None when no entry's key is a prefix of the label name.
C3_FirstKeyPrefixCategory ==
    pc = "returned" => ret = FirstKeyPrefix(args.entries, args.label, 1)

---------------------------------------------------------------------------
(* crop.py: extract_bounding_boxes *)

\* Default of extract_bounding_boxes' min_confidence (75.0).
MIN_CONFIDENCE == 75

\* A key that leaves the index out.
InstanceKeyWithoutIndex(name, idx) == name \o <<"-">>

\* f"{name}-{i}"
InstanceKey(name, idx) == name \o <<"-">> \o Str(idx)

\* A strict comparison.
AcceptsAbove(instance, min_confidence) == instance.Confidence > min_confidence

\* instance["Confidence"] >= min_confidence
Accepts(instance, min_confidence) == instance.Confidence >= min_confidence

RECURSIVE ExtractInstances(_, _, _, _, _)
\* The inner loop over enumerate(instances), k being the 1-based position.
ExtractInstances(name, instances, min_confidence, k, result) ==
    IF k > Len(instances) THEN result
    ELSE ExtractInstances(name, instances, min_confidence, k + 1,
            IF Accepts(instances[k], min_confidence)
            THEN DictPut(result, InstanceKey(name, k - 1), instances[k].BoundingBox)
            ELSE result)

RECURSIVE ExtractLabels(_, _, _, _)
\* The outer loop over the labels.
ExtractLabels(labels, min_confidence, l, result) ==
    IF l > Len(labels) THEN result
    ELSE ExtractLabels(labels, min_confidence, l + 1,
            ExtractInstances(labels[l].Name, DictGet(labels[l], "Instances", <<>>),
                             min_confidence, 1, result))

extract_bounding_boxes(labels, min_confidence) ==
    ExtractLabels(labels, min_confidence, 1, EmptyDict)

---------------------------------------------------------------------------
(* crop.py: make_cropped_images *)

\* int(fraction * n) for the fraction num/den: truncation toward zero.
IntOfProduct(fraction, n) ==
    LET num == fraction[1] * n
        den == fraction[2]
    IN  IF num >= 0 THEN num \div den ELSE -((-num) \div den)

\* Right and bottom as int() of the summed fractions.
PixelRectOfSummedFractions(bbox, width, height) ==
    LET sumW == <<bbox.Left[1] * bbox.Width[2] + bbox.Width[1] * bbox.Left[2],
                  bbox.Left[2] * bbox.Width[2]>>
        sumH == <<bbox.Top[1] * bbox.Height[2] + bbox.Height[1] * bbox.Top[2],
                  bbox.Top[2] * bbox.Height[2]>>
    IN  <<IntOfProduct(bbox.Left, width), IntOfProduct(bbox.Top, height),
          IntOfProduct(sumW, width), IntOfProduct(sumH, height)>>

\* The (left, top, right, bottom) tuple handed to Image.crop.
PixelRect(bbox, width, height) ==
    LET left == IntOfProduct(bbox.Left, width)
        top == IntOfProduct(bbox.Top, height)
        right == left + IntOfProduct(bbox.Width, width)
        bottom == top + IntOfProduct(bbox.Height, height)
    IN  <<left, top, right, bottom>>

\* The files written: one per entry of the dict, at
\* <output_dir>/<key><extension of the source image>.
make_cropped_images(image_path, width, height, boxes, output_dir) ==
    {<<PathJoin2(output_dir, name \o SplitExt(image_path)),
       PixelRect(boxes[name], width, height)>> : name \in DOMAIN boxes}

---------------------------------------------------------------------------
(* crop.py: the pixel rectangle of one bounding box *)

MaxDim == 3

\* Fractions of the image, each in [0, 1].
Fractions ==
    {<<0, 1>>, <<1, 10>>, <<1, 5>>, <<1, 4>>, <<1, 3>>, <<1, 2>>, <<3, 4>>, <<1, 1>>}

BoundingBoxes == [Left : Fractions, Top : Fractions, Width : Fractions, Height : Fractions]

ImageSizes == {<<1000, 500>>} \cup ((1..MaxDim) \X (1..MaxDim))

RectInit ==
    /\ args \in [bbox : BoundingBoxes, size : ImageSizes]
    /\ pc = "call"
    /\ ret = Idle
    /\ ClassifyIdle /\ CropIdle

CallPixelRect ==
    /\ pc = "call"
    /\ ret' = PixelRect(args.bbox, args.size[1], args.size[2])
    /\ pc' = "returned"
    /\ UNCHANGED <<args, classifyVars, cropVars>>

RectNext == CallPixelRect

SpecRect == RectInit /\ [][RectNext]_vars

\* q is floor(fraction * n): the integer with q <= fraction * n < q + 1.
IsFloorOfProduct(q, fraction, n) ==
    /\ q * fraction[2] <= fraction[1] * n
    /\ fraction[1] * n < (q + 1) * fraction[2]

ExampleBox == [Left |-> <<1, 10>>, Top |-> <<1, 5>>, Width |-> <<1, 2>>, Height |-> <<1, 2>>]

\* C8: the rectangle cropped is left = floor(Left * width),
\* top = floor(Top * height), right = left + floor(Width * width),
\* bottom = top + floor(Height * height), each term truncated on its own; on
\* a 1000x500 image the box (0.1, 0.2, 0.5, 0.5) gives (100, 100)-(600, 350).
C8_RectangleOfSeparatelyFlooredTerms ==
    pc = "returned" =>
        /\ IsFloorOfProduct(ret[1], args.bbox.Left, args.size[1])
        /\ IsFloorOfProduct(ret[2], args.bbox.Top, args.size[2])
        /\ IsFloorOfProduct(ret[3] - ret[1], args.bbox.Width, args.size[1])
        /\ IsFloorOfProduct(ret[4] - ret[2], args.bbox.Height, args.size[2])
        /\ (args.bbox = ExampleBox /\ args.size = <<1000, 500>>)
                => ret = <<100, 100, 600, 350>>

\* The example box was cropped out of a 1000x500 image.
C8_WitnessExample ==
    /\ pc = "returned"
    /\ args.bbox = ExampleBox /\ args.size = <<1000, 500>>
    /\ ret = <<100, 100, 600, 350>>

---------------------------------------------------------------------------
(* crop.py: the script *)

MaxLabels == 2
MaxInstances == 2

OtherBox == [Left |-> <<1, 4>>, Top |-> <<0, 1>>, Width |-> <<3, 4>>, Height |-> <<1, 3>>]

Cat == <<"C", "a", "t">>
CatOne == <<"C", "a", "t", "-", "1">>

\* Confidence just below the threshold, or exactly at it.
Instances ==
    {[Confidence |-> MIN_CONFIDENCE - 1, BoundingBox |-> ExampleBox],
     [Confidence |-> MIN_CONFIDENCE, BoundingBox |-> ExampleBox],
     [Confidence |-> MIN_CONFIDENCE, BoundingBox |-> OtherBox]}

Labels == [Name : {Cat, CatOne}, Instances : SeqsUpTo(Instances, MaxInstances)]

InputPath == <<"p", ".", "j", "p", "g">>
OutputDir == <<"o", "u", "t">>

CropInit ==
    /\ args \in [labels : SeqsUpTo(Labels, MaxLabels),
                 size : {<<1000, 500>>}]
    /\ pc = "start"
    /\ ret = Idle
    /\ ClassifyIdle /\ CropIdle

\* bounding_boxes = extract_bounding_boxes(labels)
ExtractBoundingBoxes ==
    /\ pc = "start"
    /\ bounding_boxes' = extract_bounding_boxes(args.labels, MIN_CONFIDENCE)
    /\ pc' = "extracted"
    /\ UNCHANGED <<args, ret, classifyVars, cropped>>

\* make_cropped_images(args.input_path, bounding_boxes, args.output_dir)
MakeCroppedImages ==
    /\ pc = "extracted"
    /\ cropped' = make_cropped_images(InputPath, args.size[1], args.size[2],
                                      bounding_boxes, OutputDir)
    /\ pc' = "done"
    /\ UNCHANGED <<args, ret, classifyVars, bounding_boxes>>

CropNext == ExtractBoundingBoxes \/ MakeCroppedImages

SpecCrop == CropInit /\ [][CropNext]_vars

\* Instance k (1-based) of label l reaches the confidence threshold.
Qualifies(l, k) ==
    /\ k \in 1..Len(args.labels[l].Instances)
    /\ args.labels[l].Instances[k].Confidence >= MIN_CONFIDENCE

LabelIndices == 1..Len(args.labels)
InstanceIndices(l) == 1..Len(args.labels[l].Instances)

KeyOf(l, k) == args.labels[l].Name \o <<"-">> \o Str(k - 1)

DistinctNames ==
    \A l, m \in LabelIndices : l # m => args.labels[l].Name # args.labels[m].Name

\* C7 as stated: for every instance of every label, the result holds the key
\* "<labelName>-<i>" mapped to that instance's box exactly when the
\* instance's confidence is >= minConfidence.
C7_EntryIffQualifies ==
    pc # "start" =>
        \A l \in LabelIndices : \A k \in InstanceIndices(l) :
            (/\ KeyOf(l, k) \in DOMAIN bounding_boxes
             /\ bounding_boxes[KeyOf(l, k)] = args.labels[l].Instances[k].BoundingBox)
                <=> Qualifies(l, k)

\* C7 amended: the result holds the key "<labelName>-<i>", i the 0-based
\* position in the instance list received, exactly when an instance at
\* position i of a label of that name has confidence >= minConfidence; the
\* key maps to that instance's box, and to the box of the last such label
\* when several labels share the name.
C7_EntryIffSomeSameNamedQualifies ==
    pc # "start" =>
        /\ \A l \in LabelIndices : \A k \in InstanceIndices(l) :
            Qualifies(l, k) =>
                /\ KeyOf(l, k) \in DOMAIN bounding_boxes
                /\ (\A m \in LabelIndices :
                        (m > l /\ Qualifies(m, k)) =>
                            args.labels[m].Name # args.labels[l].Name)
                    => bounding_boxes[KeyOf(l, k)] =
                            args.labels[l].Instances[k].BoundingBox
        /\ \A key \in DOMAIN bounding_boxes :
            \E l \in LabelIndices : \E k \in InstanceIndices(l) :
                Qualifies(l, k) /\ key = KeyOf(l, k)
        /\ DistinctNames =>
            \A l \in LabelIndices : \A k \in InstanceIndices(l) :
                (/\ KeyOf(l, k) \in DOMAIN bounding_boxes
                 /\ bounding_boxes[KeyOf(l, k)] =
                        args.labels[l].Instances[k].BoundingBox)
                    <=> Qualifies(l, k)

\* A label whose first instance is below the threshold and whose second is
\* exactly at it: the result holds the key of index 1 and not of index 0.
C7_WitnessIndexOfReceivedList ==
    /\ pc # "start"
    /\ \E l \in LabelIndices :
        /\ Len(args.labels[l].Instances) = 2
        /\ args.labels[l].Instances[1].Confidence = MIN_CONFIDENCE - 1
        /\ args.labels[l].Instances[2].Confidence = MIN_CONFIDENCE
        /\ KeyOf(l, 2) \in DOMAIN bounding_boxes
        /\ KeyOf(l, 1) \notin DOMAIN bounding_boxes

QualifyingInstances ==
    {<<l, k>> \in LabelIndices \X (1..MaxInstances) : Qualifies(l, k)}

QualifyingNamedPositions ==
    {<<args.labels[q[1]].Name, q[2]>> : q \in QualifyingInstances}

\* C10 as stated: for any sequence of labels no entry overwrites another, so
\* the result has as many entries as there are instances with confidence >=
\* minConfidence, and one file is written for each.
C10_EntryPerQualifyingInstance ==
    /\ pc # "start" =>
        Cardinality(DOMAIN bounding_boxes) = Cardinality(QualifyingInstances)
    /\ pc = "done" => Cardinality(cropped) = Cardinality(QualifyingInstances)

\* C10 amended: the result has one entry, and one file is written, for each
\* distinct (label name, position) pair of the instances with confidence >=
\* minConfidence; that is one per qualifying instance when the label names
\* are pairwise distinct.
C10_EntryPerQualifyingNamedPosition ==
    /\ pc # "start" =>
        /\ Cardinality(DOMAIN bounding_boxes) = Cardinality(QualifyingNamedPositions)
        /\ DistinctNames =>
            Cardinality(DOMAIN bounding_boxes) = Cardinality(QualifyingInstances)
    /\ pc = "done" =>
        /\ Cardinality(cropped) = Cardinality(QualifyingNamedPositions)
        /\ DistinctNames => Cardinality(cropped) = Cardinality(QualifyingInstances)

\* Two labels of different names, each with two qualifying instances: four
\* entries and four files.
C10_WitnessFourFiles ==
    /\ pc = "done"
    /\ DistinctNames
    /\ Cardinality(QualifyingInstances) = 4
    /\ Cardinality(cropped) = 4

---------------------------------------------------------------------------
(* classify.py: the script *)

MaxImages == 2
MaxImageLabels == 2

LABELS_DIR == <<"l", "a", "b", "e", "l", "s">>
COLORS_DIR == <<"c", "o", "l", "o", "r", "s">>

\* The exception os.path.join raises on a None component.
TypeError == <<"TypeError">>

\* os.path.join(labels_dir, label_category, name)
LabelPath(label_category, name) ==
    IF label_category = None THEN TypeError
    ELSE PathJoin3(LABELS_DIR, label_category, name)

\* The mapping file of the run, one line "cat,Animals" with its newline.
CategoriesFile ==
    FileLines(<<[key |-> <<"c", "a", "t">>, category |-> Animals]>>, TRUE)

\* The labels the service reports: "cat" starts the file's line, "at" starts
\* none; a label is of the whole image or has one instance.
ImageLabels ==
    {[Name |-> <<"c", "a", "t">>, Instances |-> <<>>],
     [Name |-> <<"a", "t">>, Instances |-> <<>>],
     [Name |-> <<"c", "a", "t">>,
      Instances |-> <<[Confidence |-> MIN_CONFIDENCE, BoundingBox |-> ExampleBox]>>]}

\* What run_rekognition may return for an image.
Responses ==
    [ImageProperties :
        [Quality : {EmptyDict, [Sharpness |-> DEFAULT_min_sharpness]},
         DominantColors : {<<>>,
                           <<[PixelPercent |-> 0, SimplifiedColor |-> Red],
                             [PixelPercent |-> MaxPercent, SimplifiedColor |-> Blue]>>}],
     Labels : SeqsUpTo(ImageLabels, MaxImageLabels)]

Init ==
    /\ args \in [image_count : 0..MaxImages,
                 min_sharpness : {DEFAULT_min_sharpness, DefaultSharpness}]
    /\ pc = "for_image"
    /\ response = Idle
    /\ i = 0
    /\ j = 0
    /\ copies = {}
    /\ skipped = {}
    /\ error = "none"
    /\ ret = Idle
    /\ CropIdle

\* for image_path in image_paths: response = run_rekognition(...)
RunRekognition ==
    /\ pc = "for_image"
    /\ i < args.image_count
    /\ i' = i + 1
    /\ response' \in Responses
    /\ pc' = "gate"
    /\ UNCHANGED <<args, ret, j, copies, skipped, error, cropVars>>

\* The loop over image_paths is exhausted.
EndOfBatch ==
    /\ pc = "for_image"
    /\ i = args.image_count
    /\ pc' = "done"
    /\ UNCHANGED <<args, ret, response, i, j, copies, skipped, error, cropVars>>

\* A break in the place of the continue.
SkipBlurryAndStop ==
    /\ pc = "gate"
    /\ ~is_sharp(response.ImageProperties, args.min_sharpness)
    /\ skipped' = skipped \cup {i}
    /\ pc' = "done"
    /\ UNCHANGED <<args, ret, response, i, j, copies, error, cropVars>>

\* if not is_sharp(...): print(...); continue
SkipBlurry ==
    /\ pc = "gate"
    /\ ~is_sharp(response.ImageProperties, args.min_sharpness)
    /\ skipped' = skipped \cup {i}
    /\ pc' = "for_image"
    /\ UNCHANGED <<args, ret, response, i, j, copies, error, cropVars>>

\* dominant_color = get_dominant_color_name(properties);
\* make_category(os.path.join(colors_dir, dominant_color))
CopyToColor ==
    /\ pc = "gate"
    /\ is_sharp(response.ImageProperties, args.min_sharpness)
    /\ LET dominant_color == get_dominant_color_name(response.ImageProperties)
       IN  IF dominant_color = ValueError
           THEN /\ error' = "ValueError"
                /\ pc' = "crashed"
                /\ UNCHANGED <<copies, j>>
           ELSE /\ copies' = copies \cup {<<PathJoin2(COLORS_DIR, dominant_color), i>>}
                /\ j' = 1
                /\ pc' = "for_label"
                /\ UNCHANGED error
    /\ UNCHANGED <<args, ret, response, i, skipped, cropVars>>

\* for label in labels: a label with instances is passed over.
PassInstanceLabel ==
    /\ pc = "for_label"
    /\ j <= Len(response.Labels)
    /\ DictGet(response.Labels[j], "Instances", <<>>) # <<>>
    /\ j' = j + 1
    /\ UNCHANGED <<args, ret, response, i, pc, copies, skipped, error, cropVars>>

\* for label in labels: a label of the whole image is resolved and copied to.
CopyToLabel ==
    /\ pc = "for_label"
    /\ j <= Len(response.Labels)
    /\ DictGet(response.Labels[j], "Instances", <<>>) = <<>>
    /\ LET name == response.Labels[j].Name
           label_category ==
               get_label_category(CategoriesFile, name)
           path == LabelPath(label_category, name)
       IN  IF path = TypeError
           THEN /\ error' = "TypeError"
                /\ pc' = "crashed"
                /\ UNCHANGED <<copies, j>>
           ELSE /\ copies' = copies \cup {<<path, i>>}
                /\ j' = j + 1
                /\ UNCHANGED <<pc, error>>
    /\ UNCHANGED <<args, ret, response, i, skipped, cropVars>>

\* The labels of the image are exhausted: on to the next image.
EndOfLabels ==
    /\ pc = "for_label"
    /\ j > Len(response.Labels)
    /\ pc' = "for_image"
    /\ UNCHANGED <<args, ret, response, i, j, copies, skipped, error, cropVars>>

Next ==
    \/ RunRekognition
    \/ EndOfBatch
    \/ SkipBlurry
    \/ CopyToColor
    \/ PassInstanceLabel
    \/ CopyToLabel
    \/ EndOfLabels

Spec == Init /\ [][Next]_vars

\* str.endswith(suffix)
EndsWith(s, suffix) ==
    /\ Len(suffix) <= Len(s)
    /\ SubSeq(s, Len(s) - Len(suffix) + 1, Len(s)) = suffix

\* The loop body of image i is over, by its end, a continue or an exception.
BodyOver == i >= 1 /\ pc \in {"for_image", "done", "crashed"}

\* Image i passed the sharpness gate and was copied to its color directory.
PassedGate ==
    /\ i \notin skipped
    /\ response.ImageProperties.DominantColors # <<>>

\* The copies of image i under labels/.
LabelCopies == {c \in copies : c[2] = i /\ StartsWith(c[1], LABELS_DIR \o <<"/">>)}

\* The copies of image i under labels/<some category>/<name>.
CopiesForLabel(name) == {c \in LabelCopies : EndsWith(c[1], <<"/">> \o name)}

WholeImageLabels == {l \in 1..Len(response.Labels) : response.Labels[l].Instances = <<>>}

\* C1: once the labels of an image that passed the gate are handled, every
\* label without instances has exactly one labels/<category>/<labelName>
\* directory holding the image, and no labels/ directory holds it on account
\* of a label with instances.
C1_WholeImageLabelsAlwaysCopied ==
    (BodyOver /\ PassedGate) =>
        /\ \A l \in WholeImageLabels :
            Cardinality(CopiesForLabel(response.Labels[l].Name)) = 1
        /\ \A c \in LabelCopies :
            \E l \in WholeImageLabels : c \in CopiesForLabel(response.Labels[l].Name)

Uncategorized == <<"u", "n", "c", "a", "t", "e", "g", "o", "r", "i", "z", "e", "d">>

\* C2: a label of the whole image that the mapping does not resolve ends no
\* run: the image is copied to labels/uncategorized/<labelName> and the
\* labels and images after it are handled.
C2_UnresolvedLabelGoesToUncategorized ==
    /\ error # "TypeError"
    /\ (BodyOver /\ PassedGate) =>
        \A l \in WholeImageLabels :
            get_label_category(CategoriesFile, response.Labels[l].Name) = None
                => <<PathJoin3(LABELS_DIR, Uncategorized, response.Labels[l].Name), i>>
                        \in copies

\* C5: an image the gate rejects is copied nowhere, the run never ends in an
\* exception on it (the gate comes before the color selection), and the loop
\* goes on to the images after it: the run ends only past the last image.
C5_BlurryImageSkippedWithoutCopy ==
    /\ \A c \in copies : c[2] \notin skipped
    /\ (i >= 1 /\ ~is_sharp(response.ImageProperties, args.min_sharpness)) =>
        /\ \A c \in copies : c[2] # i
        /\ pc # "crashed"
        /\ pc # "gate" => i \in skipped
    /\ pc = "done" => i = args.image_count

\* The run ended after the gate rejected an image and an image after it was
\* copied.
C5_WitnessLaterImageCopied ==
    /\ pc = "done"
    /\ \E k \in skipped : \E c \in copies : c[2] > k

====
